---- MODULE Spec2Model ----
(***************************************************************************)
(* Model of scripts/sync_channels.py (class ChannelSync).                  *)
(*                                                                         *)
(* Text is modelled as a sequence of tokens.  A token stands for a fixed   *)
(* piece of text ("#EXTINF:", "http", ",", one letter of a name, ...); the *)
(* tokens are chosen so that no token occurs inside another one, hence     *)
(* equality, prefix, suffix and substring tests on the Python strings are  *)
(* the same tests on the token sequences.  A document (a Python string     *)
(* with newlines) is the non-empty sequence of its lines, which is what    *)
(* str.split('\n') returns and what '\n'.join() consumes.                  *)
(*                                                                         *)
(* A Python value that may be None is a sequence of length 0 (None) or 1.  *)
(***************************************************************************)
EXTENDS Integers, Sequences, FiniteSets, TLC

VARIABLES
    pc,               \* position in ChannelSync.run / update_m3u_file
    channels_config,  \* self.channels_config
    koreatv_json,     \* self.koreatv_json
    koreatv_epg,      \* self.koreatv_epg
    backup_m3u,       \* self.backup_m3u
    channel_results,  \* channel_results of process_channels / run
    kr_m3u,           \* the file kr.m3u on disk: NONE when it does not exist
    content,          \* update_m3u_file: content as read
    new_content,      \* update_m3u_file: new_content
    k,                \* update_m3u_file: index of the result being merged
    backup_info,      \* process_channels: backup_url, backup_logo as last assigned
    runs,             \* calls of update_m3u_file on the file so far
    exit_status       \* status handed to sys.exit: -1 while running

vars == <<pc, channels_config, koreatv_json, koreatv_epg, backup_m3u,
          channel_results, backup_info, kr_m3u, content, new_content, k, runs,
          exit_status>>

----------------------------------------------------------------------------
(* Tokens *)

EXTINF   == "#EXTINF:"
EXTM3U   == "#EXTM3U"
HTTP     == "http"
COMMA    == ","
SP       == " "
QUOTE    == "\""
IDATTR   == "tvg-id=\""
LOGOATTR == "tvg-logo=\""
NULLSTR  == <<"null">>
SKIP     == <<"skip">>

NONE     == <<>>
Some(x)  == <<x>>
IsNone(o) == o = <<>>
Val(o)   == o[1]

(* Python truthiness of a str-or-None value: None and '' are false. *)
Truthy(o) == ~IsNone(o) /\ Val(o) # <<>>

----------------------------------------------------------------------------
(* str methods *)

IsSpace(t) == t = SP

RECURSIVE LStrip(_)
LStrip(s) ==
    IF s # <<>> /\ IsSpace(Head(s)) THEN LStrip(Tail(s)) ELSE s

RECURSIVE RStrip(_)
RStrip(s) ==
    IF s # <<>> /\ IsSpace(s[Len(s)]) THEN RStrip(SubSeq(s, 1, Len(s) - 1)) ELSE s

Strip(s) == RStrip(LStrip(s))

StartsWith(s, t) == s # <<>> /\ s[1] = t

EndsWith(s, suffix) ==
    /\ Len(suffix) <= Len(s)
    /\ SubSeq(s, Len(s) - Len(suffix) + 1, Len(s)) = suffix

(* needle in s *)
Contains(s, needle) ==
    \E i \in 0..(Len(s) - Len(needle)) : SubSeq(s, i + 1, i + Len(needle)) = needle

IsBlankLine(l) == \A i \in 1..Len(l) : IsSpace(l[i])

(* text.strip() on the lines of text: the result's lines.  '' is one empty line. *)
RECURSIVE DropLeadingBlank(_)
DropLeadingBlank(ls) ==
    IF ls # <<>> /\ IsBlankLine(Head(ls)) THEN DropLeadingBlank(Tail(ls)) ELSE ls

RECURSIVE DropTrailingBlank(_)
DropTrailingBlank(ls) ==
    IF ls # <<>> /\ IsBlankLine(ls[Len(ls)])
    THEN DropTrailingBlank(SubSeq(ls, 1, Len(ls) - 1))
    ELSE ls

StripText(ls) ==
    LET body == DropTrailingBlank(DropLeadingBlank(ls))
        n == Len(body)
    IN  IF n = 0 THEN << <<>> >>
        ELSE IF n = 1 THEN << Strip(body[1]) >>
        ELSE << LStrip(body[1]) >> \o SubSeq(body, 2, n - 1) \o << RStrip(body[n]) >>

(* '\n'.join(lines).split('\n'): an empty list joins to '' *)
JoinSplit(ls) == IF ls = <<>> THEN << <<>> >> ELSE ls

----------------------------------------------------------------------------
(* update_m3u_file: the duplicate-removal loop *)

(* re.search(r',([^,]+)$', line): the match starts at the line's last comma *)
(* and needs at least one character after it.                               *)
LastComma(line) ==
    IF \E i \in 1..Len(line) : line[i] = COMMA
    THEN CHOOSE i \in 1..Len(line) :
            /\ line[i] = COMMA
            /\ \A j \in (i + 1)..Len(line) : line[j] # COMMA
    ELSE 0

HasLabel(line) == LastComma(line) > 0 /\ LastComma(line) < Len(line)

(* match.group(1).strip() *)
Label(line) == Strip(SubSeq(line, LastComma(line) + 1, Len(line)))

(* One pass of the loop body over lines[i..]: seen is seen_channels, cur is *)
(* current_extinf (None, 'skip' or a channel name), out is cleaned_lines.   *)
RECURSIVE DedupFrom(_, _, _, _, _)
DedupFrom(lines, i, seen, cur, out) ==
    IF i > Len(lines) THEN out
    ELSE LET line == lines[i] IN
         IF StartsWith(line, EXTINF) THEN
            IF HasLabel(line) THEN
               IF Label(line) \in seen
               THEN DedupFrom(lines, i + 1, seen, Some(SKIP), out)
               ELSE DedupFrom(lines, i + 1, seen \cup {Label(line)},
                              Some(Label(line)), Append(out, line))
            ELSE DedupFrom(lines, i + 1, seen, cur, Append(out, line))
         ELSE IF StartsWith(line, HTTP) THEN
            IF cur = Some(SKIP)
            THEN DedupFrom(lines, i + 1, seen, NONE, out)
            ELSE DedupFrom(lines, i + 1, seen, NONE, Append(out, line))
         ELSE DedupFrom(lines, i + 1, seen, cur, Append(out, line))

RemoveDuplicates(lines) == DedupFrom(lines, 1, {}, NONE, <<>>)

(* '\n'.join(cleaned_lines).strip(), as lines *)
CleanText(lines) == StripText(JoinSplit(RemoveDuplicates(lines)))

----------------------------------------------------------------------------
(* update_m3u_file: add or update one channel *)

ExtinfLine(ch) ==
    IF ch.logo # <<>>
    THEN <<EXTINF, "-1", SP, IDATTR>> \o ch.channel_id \o <<QUOTE, SP, LOGOATTR>>
            \o ch.logo \o <<QUOTE, COMMA>> \o ch.name
    ELSE <<EXTINF, "-1", SP, IDATTR>> \o ch.channel_id \o <<QUOTE, COMMA>> \o ch.name

(* Where '#EXTINF:[^\n]*,<name>' followed by a newline matches inside line: *)
(* the first '#EXTINF:' of the line that leaves room for ',<name>' at the   *)
(* end of the line; 0 when there is none.                                   *)
DescStart(line, name) ==
    LET cand == { p \in 1..Len(line) :
                    /\ line[p] = EXTINF
                    /\ p + 1 + Len(name) <= Len(line)
                    /\ EndsWith(line, <<COMMA>> \o name) }
    IN  IF cand = {} THEN 0 ELSE CHOOSE p \in cand : \A q \in cand : p <= q

(* re.search(pattern, new_content): the newline the pattern ends with keeps *)
(* the text's last line from matching.                                      *)
PatternFound(text, name) ==
    \E j \in 1..(Len(text) - 1) : DescStart(text[j], name) > 0

ReplaceDesc(line, name, extinf_line) ==
    SubSeq(line, 1, DescStart(line, name) - 1) \o extinf_line

(* first re.sub: every matching line that is not the last one *)
SubDescriptors(text, name, extinf_line) ==
    [j \in 1..Len(text) |->
        IF j < Len(text) /\ DescStart(text[j], name) > 0
        THEN ReplaceDesc(text[j], name, extinf_line)
        ELSE text[j]]

(* second re.sub: a matching line, the line after it and that line's newline; *)
(* the scan resumes after what a match consumed.                              *)
RECURSIVE SubUrlsFrom(_, _, _, _, _)
SubUrlsFrom(text, j, name, extinf_line, url) ==
    IF j > Len(text) THEN <<>>
    ELSE IF DescStart(text[j], name) > 0 /\ j + 2 <= Len(text)
         THEN <<ReplaceDesc(text[j], name, extinf_line), url>>
                 \o SubUrlsFrom(text, j + 2, name, extinf_line, url)
         ELSE <<text[j]>> \o SubUrlsFrom(text, j + 1, name, extinf_line, url)

SubUrls(text, name, extinf_line, url) == SubUrlsFrom(text, 1, name, extinf_line, url)

(* mutant: the new channel is put right after the first line *)
AppendChannelFront(text, extinf_line, url) ==
    <<text[1]>> \o << <<>>, extinf_line, url >> \o Tail(text)

(* new_content += f'\n\n{extinf_line}\n{url}' *)
AppendChannel(text, extinf_line, url) == text \o << <<>>, extinf_line, url >>

(* the body of "for channel in channel_results" *)
MergeChannel(text, ch) ==
    IF ~ch.success THEN text
    ELSE IF PatternFound(text, ch.name)
         THEN SubUrls(SubDescriptors(text, ch.name, ExtinfLine(ch)),
                      ch.name, ExtinfLine(ch), ch.url)
         ELSE AppendChannel(text, ExtinfLine(ch), ch.url)

RECURSIVE MergeFrom(_, _, _)
MergeFrom(text, results, i) ==
    IF i > Len(results) THEN text
    ELSE MergeFrom(MergeChannel(text, results[i]), results, i + 1)

(* mutant: the second duplicate-removal loop is left out *)
FinalContentNoDedup(text) ==
    LET final == StripText(text)
    IN  IF StartsWith(final[1], EXTM3U) THEN final ELSE << <<EXTM3U>> >> \o final

(* final_content, from new_content *)
FinalContent(text) ==
    LET final == CleanText(text)
    IN  IF StartsWith(final[1], EXTM3U) THEN final ELSE << <<EXTM3U>> >> \o final

(* content when kr.m3u does not exist: "#EXTM3U\n" *)
FreshContent == << <<EXTM3U>>, <<>> >>

ReadContent(file) == IF IsNone(file) THEN FreshContent ELSE Val(file)

(* update_m3u_file's written text, from the file and the results *)
UpdatedFile(file, results) ==
    FinalContent(MergeFrom(CleanText(ReadContent(file)), results, 1))

----------------------------------------------------------------------------
(* The three lookups of process_channels *)

(* koreatv_epg is the sequence of the listing's channel elements, each     *)
(* [id, display_name]: '<channel id="ID"><display-name>NAME</display-name>'. *)
(* Both patterns escape epg_match and so accept the display name only when *)
(* it is epg_match, character for character; re.search returns the first   *)
(* such element of the text.                                               *)
EpgMatches(entry, epg_match) == entry.id # <<>> /\ entry.display_name = epg_match

extract_channel_id_from_epg(epg, epg_match) ==
    IF epg = <<>> THEN NONE
    ELSE IF \E i \in 1..Len(epg) : EpgMatches(epg[i], epg_match)
         THEN LET i == CHOOSE i \in 1..Len(epg) :
                          /\ EpgMatches(epg[i], epg_match)
                          /\ \A j \in 1..(i - 1) : ~EpgMatches(epg[j], epg_match)
              IN  Some(epg[i].id)
         ELSE NONE

(* koreatv_json is the sequence of catalog objects [name, uris, url, logo]; *)
(* url is NONE when the object has no 'url' key, logo is '' when it has no  *)
(* 'logo' key.  The result is the pair <<url, logo>>.                       *)
extract_info_from_json(json, json_match) ==
    IF json = <<>> THEN <<NONE, NONE>>
    ELSE IF \E i \in 1..Len(json) : json[i].name = json_match
         THEN LET i == CHOOSE i \in 1..Len(json) :
                          /\ json[i].name = json_match
                          /\ \A j \in 1..(i - 1) : json[j].name # json_match
                  channel == json[i]
                  url == IF channel.uris # <<>> THEN Some(channel.uris[1])
                         ELSE channel.url
              IN  <<url, Some(channel.logo)>>
         ELSE <<NONE, NONE>>

(* re.search(r'tvg-logo="([^"]+)"', line): group 1, or '' *)
LogoOf(line) ==
    LET cand == { p \in 1..Len(line) :
                    /\ line[p] = LOGOATTR
                    /\ \E q \in (p + 2)..Len(line) :
                          /\ line[q] = QUOTE
                          /\ \A r \in (p + 1)..(q - 1) : line[r] # QUOTE }
    IN  IF cand = {} THEN <<>>
        ELSE LET p == CHOOSE p \in cand : \A q \in cand : p <= q
                 e == CHOOSE q \in (p + 2)..Len(line) :
                          /\ line[q] = QUOTE
                          /\ \A r \in (p + 1)..(q - 1) : line[r] # QUOTE
             IN  SubSeq(line, p + 1, e - 1)

(* mutant: any line that contains the match text, descriptor or not *)
BackupHitAnyLine(lines, i, backup_match) ==
    /\ Contains(lines[i], backup_match)
    /\ i + 1 <= Len(lines)

BackupHit(lines, i, backup_match) ==
    /\ StartsWith(lines[i], EXTINF)
    /\ Contains(lines[i], backup_match)
    /\ i + 1 <= Len(lines)

(* backup is NONE (never fetched) or the text as lines; [''] is the empty text *)
extract_info_from_backup(backup, backup_match) ==
    IF IsNone(backup) \/ Val(backup) = << <<>> >> THEN <<NONE, NONE>>
    ELSE LET lines == Val(backup) IN
         IF \E i \in 1..Len(lines) : BackupHit(lines, i, backup_match)
         THEN LET i == CHOOSE i \in 1..Len(lines) :
                          /\ BackupHit(lines, i, backup_match)
                          /\ \A j \in 1..(i - 1) : ~BackupHit(lines, j, backup_match)
              IN  <<Some(lines[i + 1]), Some(LogoOf(lines[i]))>>
         ELSE <<NONE, NONE>>

----------------------------------------------------------------------------
(* process_channels: one iteration of the loop *)

(* channel.get(key, default) for an optional key *)
Get(opt, default) == IF IsNone(opt) THEN default ELSE Val(opt)

(* mutant: the text 'null' is taken for a value *)
UnusableNoNull(url) == ~Truthy(url)

(* not url or url == 'null' *)
Unusable(url) == ~Truthy(url) \/ url = Some(NULLSTR)

ChannelId(epg, channel) ==
    LET channel_id == extract_channel_id_from_epg(epg, channel.epg_match)
    IN  IF ~Truthy(channel_id) THEN Get(channel.default_id, <<>>) ELSE Val(channel_id)

BackupMatch(channel) == Get(channel.backup_match, channel.json_match)

(* mutant: the backup is tried whether or not the channel has backup_source *)
BackupTriedAlways(json, channel) ==
    Unusable(extract_info_from_json(json, channel.json_match)[1])

(* step 3's condition: the primary source failed and the channel has a backup *)
BackupTried(json, channel) ==
    /\ Unusable(extract_info_from_json(json, channel.json_match)[1])
    /\ Get(channel.backup_source, FALSE)

(* mutant: the backup's logo replaces the catalog's whenever its url is taken *)
ResolveInfoBackupLogo(json, backup, channel) ==
    LET primary == extract_info_from_json(json, channel.json_match)
        info == extract_info_from_backup(backup, BackupMatch(channel))
    IN  IF BackupTried(json, channel) /\ Truthy(info[1])
        THEN <<info[1], info[2]>>
        ELSE primary

(* steps 2 and 3: <<url, logo>> after the primary and the backup source *)
ResolveInfo(json, backup, channel) ==
    LET primary == extract_info_from_json(json, channel.json_match)
        info == extract_info_from_backup(backup, BackupMatch(channel))
    IN  IF BackupTried(json, channel) /\ Truthy(info[1])
        THEN <<info[1],
               IF Truthy(info[2]) /\ Unusable(primary[2]) THEN info[2] ELSE primary[2]>>
        ELSE primary

ProcessChannel(json, epg, backup, channel) ==
    LET info == ResolveInfo(json, backup, channel)
        url == IF Unusable(info[1]) THEN NONE ELSE info[1]
        logo == IF Unusable(info[2]) THEN <<>> ELSE Val(info[2])
    IN  IF Truthy(url)
        THEN [name |-> channel.name, channel_id |-> ChannelId(epg, channel),
              url |-> Val(url), logo |-> logo, success |-> TRUE]
        ELSE [name |-> channel.name, success |-> FALSE]

SuccessCount(results) == Cardinality({i \in 1..Len(results) : results[i].success})

----------------------------------------------------------------------------
(* Bounds and the inputs drawn within them *)

MaxChannels == 2   \* channels in channels-config.yml
MaxCatalog  == 2   \* objects in koreatv.json
MaxEpg      == 2   \* channel elements in koreatvEPG.xml
MaxBackup   == 2   \* entries in the backup kr.m3u
MaxLines    == 3   \* lines of a pre-existing kr.m3u
MaxResults  == 2   \* results handed to update_m3u_file
MaxRuns     == 2   \* runs of update_m3u_file on the same file

RECURSIVE SeqsUpTo(_, _)
SeqsUpTo(S, n) ==
    IF n = 0 THEN { <<>> }
    ELSE LET shorter == SeqsUpTo(S, n - 1)
         IN  shorter \cup { Append(q, x) : q \in shorter, x \in S }

(* sequences of distinct elements: every ordering of every small subset *)
Distinct(q) == \A i, j \in 1..Len(q) : i # j => q[i] # q[j]
OrderingsUpTo(S, n) == { q \in SeqsUpTo(S, n) : Distinct(q) }

NameA == <<"A">>
NameB == <<"B">>
Url1  == <<HTTP, "1">>
Url2  == <<HTTP, "2">>
Url3  == <<HTTP, "3">>
Url9  == <<HTTP, "9">>
Rtmp  == <<"rtmp", "2">>
Logo1 == <<"L1">>
Logo2 == <<"L2">>

Channel(name, epg_match, default_id, backup_source, backup_match) ==
    [name |-> name, json_match |-> name, epg_match |-> epg_match,
     default_id |-> default_id, backup_source |-> backup_source,
     backup_match |-> backup_match]

ChannelSpecs ==
    { Channel(NameA, <<"A", "B">>, Some(<<"d">>), NONE, NONE),
      Channel(NameA, <<"A", "B">>, Some(<<"d">>), Some(TRUE), NONE),
      Channel(NameB, NameB, NONE, Some(TRUE), Some(NameB)) }

Configs == SeqsUpTo(ChannelSpecs, MaxChannels)

CatalogEntry(name, uris, url, logo) ==
    [name |-> name, uris |-> uris, url |-> url, logo |-> logo]

CatalogEntries ==
    { CatalogEntry(NameA, <<>>, Some(Url1), Logo1),
      CatalogEntry(NameA, <<>>, Some(NULLSTR), NULLSTR),
      CatalogEntry(NameB, <<Url2>>, NONE, <<>>),
      CatalogEntry(NameB, <<>>, Some(<<>>), Logo1) }

Catalogs == OrderingsUpTo(CatalogEntries, MaxCatalog)

EpgEntries ==
    { [id |-> <<"i1">>, display_name |-> <<"A", "B">>],
      [id |-> <<"i2">>, display_name |-> <<"A", SP, "B">>] }

Epgs == OrderingsUpTo(EpgEntries, MaxEpg)

BackupDesc(name) == <<EXTINF, "-1", SP, LOGOATTR>> \o Logo2 \o <<QUOTE, COMMA>> \o name

BackupEntries ==
    { <<BackupDesc(NameA), Url3>>, <<BackupDesc(NameB), Url2>> }

RECURSIVE Flatten(_)
Flatten(qs) == IF qs = <<>> THEN <<>> ELSE Head(qs) \o Flatten(Tail(qs))

(* the fetched backup text: '' when the request failed *)
Backups ==
    { << <<>> >> } \cup
    { Flatten(q) : q \in OrderingsUpTo(BackupEntries, MaxBackup) \ { <<>> } }

OldDesc(name) == <<EXTINF, "-1", COMMA>> \o name

(* kr.m3u before a run of the script *)
Files ==
    { NONE,
      Some(<< <<EXTM3U>> >>),
      Some(<< <<EXTM3U>>, OldDesc(NameA), Url9 >>),
      Some(<< <<EXTM3U>>, OldDesc(NameB), Url9, <<>>, OldDesc(NameA), Url9 >>) }

----------------------------------------------------------------------------
(* ChannelSync.run *)

Init ==
    /\ pc = "load_config"
    /\ channels_config = <<>>
    /\ koreatv_json = <<>>
    /\ koreatv_epg = <<>>
    /\ backup_m3u = NONE
    /\ channel_results = <<>>
    /\ backup_info = <<NONE, NONE>>
    /\ kr_m3u \in Files
    /\ content = << <<>> >>
    /\ new_content = << <<>> >>
    /\ k = 0
    /\ runs = 0
    /\ exit_status = -1

(* load_config: no configuration file at either path *)
LoadConfigMissing ==
    /\ pc = "load_config"
    /\ pc' = "done"
    /\ exit_status' = 1
    /\ UNCHANGED <<channels_config, koreatv_json, koreatv_epg, backup_m3u,
                   channel_results, backup_info, kr_m3u, content, new_content,
                   k, runs>>

LoadConfig ==
    /\ pc = "load_config"
    /\ \E config \in Configs : channels_config' = config
    /\ pc' = "fetch_data"
    /\ UNCHANGED <<koreatv_json, koreatv_epg, backup_m3u, channel_results,
                   backup_info, kr_m3u, content, new_content, k, runs,
                   exit_status>>

NeedBackup(config) ==
    \E i \in 1..Len(config) : Get(config[i].backup_source, FALSE)

(* fetch_data: a failed request leaves [] or '' *)
FetchData ==
    /\ pc = "fetch_data"
    /\ \E json \in Catalogs : koreatv_json' = json
    /\ \E epg \in Epgs : koreatv_epg' = epg
    /\ IF NeedBackup(channels_config)
       THEN \E backup \in Backups : backup_m3u' = Some(backup)
       ELSE backup_m3u' = backup_m3u
    /\ pc' = "process_channels"
    /\ UNCHANGED <<channels_config, channel_results, backup_info, kr_m3u,
                   content, new_content, k, runs, exit_status>>

(* process_channels: the loop body for the next channel *)
ProcessNext ==
    /\ pc = "process_channels"
    /\ Len(channel_results) < Len(channels_config)
    /\ LET channel == channels_config[Len(channel_results) + 1] IN
          /\ channel_results' =
                Append(channel_results,
                       ProcessChannel(koreatv_json, koreatv_epg, backup_m3u, channel))
          /\ backup_info' =
                IF BackupTried(koreatv_json, channel)
                THEN extract_info_from_backup(backup_m3u, BackupMatch(channel))
                ELSE backup_info
    /\ UNCHANGED <<pc, channels_config, koreatv_json, koreatv_epg, backup_m3u,
                   kr_m3u, content, new_content, k, runs, exit_status>>

(* mutant: the file is updated whatever the count *)
ShouldUpdateAlways(results) == SuccessCount(results) >= 0

(* run, step 5: update the file only when a channel succeeded *)
ShouldUpdate(results) == SuccessCount(results) > 0

Decide ==
    /\ pc = "process_channels"
    /\ Len(channel_results) = Len(channels_config)
    /\ IF ShouldUpdate(channel_results)
       THEN pc' = "update" /\ exit_status' = exit_status
       ELSE pc' = "done" /\ exit_status' = 1
    /\ UNCHANGED <<channels_config, koreatv_json, koreatv_epg, backup_m3u,
                   channel_results, backup_info, kr_m3u, content, new_content,
                   k, runs>>

(* update_m3u_file: read kr.m3u and remove its duplicates *)
ReadAndClean ==
    /\ pc = "update"
    /\ content' = ReadContent(kr_m3u)
    /\ new_content' = CleanText(ReadContent(kr_m3u))
    /\ k' = 1
    /\ runs' = runs + 1
    /\ pc' = "merge"
    /\ UNCHANGED <<channels_config, koreatv_json, koreatv_epg, backup_m3u,
                   channel_results, backup_info, kr_m3u, exit_status>>

(* update_m3u_file: the loop body for the next result *)
MergeNext ==
    /\ pc = "merge"
    /\ k <= Len(channel_results)
    /\ new_content' = MergeChannel(new_content, channel_results[k])
    /\ k' = k + 1
    /\ UNCHANGED <<pc, channels_config, koreatv_json, koreatv_epg, backup_m3u,
                   channel_results, backup_info, kr_m3u, content, runs,
                   exit_status>>

(* update_m3u_file: the final clean-up and the write; run returns True *)
WriteFile ==
    /\ pc = "merge"
    /\ k > Len(channel_results)
    /\ kr_m3u' = Some(FinalContent(new_content))
    /\ pc' = "done"
    /\ exit_status' = 0
    /\ UNCHANGED <<channels_config, koreatv_json, koreatv_epg, backup_m3u,
                   channel_results, backup_info, content, new_content, k, runs>>

Next ==
    \/ LoadConfigMissing
    \/ LoadConfig
    \/ FetchData
    \/ ProcessNext
    \/ Decide
    \/ ReadAndClean
    \/ MergeNext
    \/ WriteFile

Spec == Init /\ [][Next]_vars

----------------------------------------------------------------------------
(* update_m3u_file on any pre-existing kr.m3u, and again on its own output *)

DescA   == OldDesc(NameA)
DescB   == OldDesc(NameB)

(* the lines a pre-existing kr.m3u is made of *)
FileLines ==
    { <<EXTM3U>>,
      <<>>,
      DescA,
      DescB,
      <<EXTINF, "-1">>,                      \* a descriptor without a label
      <<EXTINF, "-1", COMMA, SP, "A">>,      \* label ' A'
      <<SP, EXTINF, "-1", COMMA, "A">>,      \* an indented descriptor
      Url1,
      Rtmp }

AnyFiles == { Some(ls) : ls \in SeqsUpTo(FileLines, MaxLines) \ { <<>> } } \cup { NONE }

Result(name, url) ==
    [name |-> name, channel_id |-> <<"i1">>, url |-> url, logo |-> <<>>,
     success |-> TRUE]

Results == { Result(NameA, Url9), Result(NameB, Rtmp) }

ResultLists == SeqsUpTo(Results, MaxResults)

InitUpdate ==
    /\ pc = "update"
    /\ channels_config = <<>>
    /\ koreatv_json = <<>>
    /\ koreatv_epg = <<>>
    /\ backup_m3u = NONE
    /\ channel_results \in ResultLists
    /\ backup_info = <<NONE, NONE>>
    /\ kr_m3u \in AnyFiles
    /\ content = << <<>> >>
    /\ new_content = << <<>> >>
    /\ k = 0
    /\ runs = 0
    /\ exit_status = -1

(* a later run calls update_m3u_file on the file this one wrote *)
UpdateAgain ==
    /\ pc = "done"
    /\ runs < MaxRuns
    /\ \E results \in ResultLists : channel_results' = results
    /\ pc' = "update"
    /\ content' = << <<>> >>
    /\ new_content' = << <<>> >>
    /\ k' = 0
    /\ exit_status' = -1
    /\ UNCHANGED <<channels_config, koreatv_json, koreatv_epg, backup_m3u,
                   backup_info, kr_m3u, runs>>

NextUpdate ==
    \/ ReadAndClean
    \/ MergeNext
    \/ WriteFile
    \/ UpdateAgain

SpecUpdate == InitUpdate /\ [][NextUpdate]_vars

----------------------------------------------------------------------------
(* process_channels on any backup text *)

MaxBackupLines == 4   \* lines of the backup text

BackupLines ==
    { BackupDesc(NameA),
      <<EXTINF, "-1", COMMA>> \o NameB,
      <<EXTINF, "-1", COMMA, "A", "B">>,
      <<>>,
      Url3,
      NameA }

AnyBackups == SeqsUpTo(BackupLines, MaxBackupLines) \ { <<>> }

BackupChannels ==
    { Channel(NameA, NameA, NONE, Some(TRUE), m) : m \in {NONE, Some(NameB)} }

InitBackup ==
    /\ pc = "process_channels"
    /\ channels_config \in { <<c>> : c \in BackupChannels }
    /\ koreatv_json = <<>>
    /\ koreatv_epg = <<>>
    /\ backup_m3u \in { Some(b) : b \in AnyBackups }
    /\ channel_results = <<>>
    /\ backup_info = <<NONE, NONE>>
    /\ kr_m3u = NONE
    /\ content = << <<>> >>
    /\ new_content = << <<>> >>
    /\ k = 0
    /\ runs = 0
    /\ exit_status = -1

NextBackup ==
    \/ ProcessNext
    \/ Decide
    \/ ReadAndClean
    \/ MergeNext
    \/ WriteFile

SpecBackup == InitBackup /\ [][NextBackup]_vars

----------------------------------------------------------------------------
(* Reading a playlist: what the properties below speak about *)

IsDescriptor(line) == StartsWith(line, EXTINF)

(* a url line of any scheme: not blank, not a '#' line *)
IsUrlLine(line) ==
    /\ ~IsBlankLine(line)
    /\ ~StartsWith(line, EXTINF)
    /\ ~StartsWith(line, EXTM3U)
    /\ ~StartsWith(line, SP)

LabelledAt(text, i) == IsDescriptor(text[i]) /\ HasLabel(text[i])

Entries(text) == { i \in 1..Len(text) : LabelledAt(text, i) }

Labels(text) == { Label(text[i]) : i \in Entries(text) }

UniqueLabels(text) ==
    \A i, j \in Entries(text) : i # j => Label(text[i]) # Label(text[j])

RECURSIVE LabelSeq(_)
LabelSeq(text) ==
    IF text = <<>> THEN <<>>
    ELSE (IF IsDescriptor(Head(text)) /\ HasLabel(Head(text))
          THEN <<Label(Head(text))>> ELSE <<>>) \o LabelSeq(Tail(text))

(* kr.m3u holds what update_m3u_file wrote *)
FileWritten ==
    \/ pc = "done" /\ exit_status = 0
    \/ pc = "update" /\ runs >= 1
    \/ pc = "merge" /\ runs >= 2

----------------------------------------------------------------------------
(* C1: the file update_m3u_file writes has at most one #EXTINF descriptor   *)
(* per trailing label, whatever kr.m3u held before and whatever the results *)
(* are, and the same is true of every later run on the file it wrote.       *)
C1_UniqueLabels == FileWritten => UniqueLabels(Val(kr_m3u))

(* a run over a file with a repeated label, whose merge step also added a   *)
(* second descriptor for a label the file already had                       *)
C1_Witness ==
    /\ pc = "done"
    /\ exit_status = 0
    /\ ~UniqueLabels(content)
    /\ ~UniqueLabels(new_content)
    /\ SuccessCount(channel_results) > 0

----------------------------------------------------------------------------
(* A descriptor/url pair named name at lines j, j+1 of text: the descriptor *)
(* ends with ',<name>' and a url line follows it.                           *)
PairAt(text, j, name) ==
    /\ j + 1 <= Len(text)
    /\ IsDescriptor(text[j])
    /\ EndsWith(text[j], <<COMMA>> \o name)
    /\ IsUrlLine(text[j + 1])

HasPair(text, name) == \E j \in 1..Len(text) : PairAt(text, j, name)

(* C2 as stated: merging a successful result into the deduplicated text     *)
(* replaces the pair with the result's name in place, by the result's       *)
(* descriptor and url, wherever the pair is (first, middle or last); with   *)
(* no such pair it appends exactly one new pair at the end.                 *)
C2_Original ==
    (pc = "merge" /\ k <= Len(channel_results) /\ channel_results[k].success) =>
        LET ch == channel_results[k]
            after == MergeChannel(new_content, ch)
        IN  /\ \A j \in 1..Len(new_content) :
                  PairAt(new_content, j, ch.name) =>
                      /\ Len(after) = Len(new_content)
                      /\ after[j] = ExtinfLine(ch)
                      /\ after[j + 1] = ch.url
            /\ ~HasPair(new_content, ch.name) /\ ~PatternFound(new_content, ch.name) =>
                  /\ Len(after) = Len(new_content) + 3
                  /\ SubSeq(after, 1, Len(new_content)) = new_content
                  /\ SubSeq(after, Len(after) - 1, Len(after)) = <<ExtinfLine(ch), ch.url>>

----------------------------------------------------------------------------
(* A playlist made of the header, blank lines, labelled descriptors and url *)
(* lines, each url line right after a descriptor.                           *)
WellFormed(text) ==
    \A i \in 1..Len(text) :
        /\ IsDescriptor(text[i]) => HasLabel(text[i])
        /\ IsUrlLine(text[i]) => i > 1 /\ IsDescriptor(text[i - 1])
        /\ \/ IsDescriptor(text[i])
           \/ IsUrlLine(text[i])
           \/ text[i] = <<>>
           \/ text[i] = <<EXTM3U>>

(* text without the descriptors whose label an earlier descriptor has, and  *)
(* without the url line that follows such a descriptor                      *)
RECURSIVE DropRepeatedPairs(_, _, _)
DropRepeatedPairs(text, i, seen) ==
    IF i > Len(text) THEN <<>>
    ELSE IF IsDescriptor(text[i]) /\ Label(text[i]) \in seen
         THEN IF i + 1 <= Len(text) /\ IsUrlLine(text[i + 1])
              THEN DropRepeatedPairs(text, i + 2, seen)
              ELSE DropRepeatedPairs(text, i + 1, seen)
         ELSE <<text[i]>> \o
              DropRepeatedPairs(text, i + 1,
                  IF IsDescriptor(text[i]) THEN seen \cup {Label(text[i])} ELSE seen)

(* C10 as stated: the first duplicate-removal pass drops every descriptor   *)
(* whose label was already seen together with its url line, whatever the    *)
(* url's scheme, and keeps every other line in order.                       *)
C10_Original ==
    (pc = "merge" /\ k = 1 /\ WellFormed(content)) =>
        new_content = StripText(JoinSplit(DropRepeatedPairs(content, 1, {})))

----------------------------------------------------------------------------
(* process_channels, read from the state while it runs and when it returns: *)
(* the channels processed so far                                            *)

Processed == 1..Len(channel_results)

(* a url or logo that is missing: None, '' or the text 'null' *)
Missing(o) == IsNone(o) \/ Val(o) = <<>> \/ Val(o) = NULLSTR

PrimaryOf(i) == extract_info_from_json(koreatv_json, channels_config[i].json_match)

FallbackOf(i) ==
    extract_info_from_backup(backup_m3u,
        IF IsNone(channels_config[i].backup_match)
        THEN channels_config[i].json_match
        ELSE Val(channels_config[i].backup_match))

BackupEnabled(i) == channels_config[i].backup_source = Some(TRUE)

RemoveSpaces(q) == SelectSeq(q, LAMBDA t : t # SP)

NormalizedHits(epg, query) ==
    { i \in 1..Len(epg) : RemoveSpaces(epg[i].display_name) = RemoveSpaces(query) }

(* C3 as stated: when no display name of the listing equals epg_match but   *)
(* one equals it once all whitespace is removed from both, the resolved     *)
(* channel id is the id of the first such element, not the default id.      *)
C3_Original ==
    pc = "process_channels" =>
    \A i \in Processed :
        LET query == channels_config[i].epg_match
            hits == NormalizedHits(koreatv_epg, query)
        IN  ( /\ channel_results[i].success
              /\ \A e \in 1..Len(koreatv_epg) : koreatv_epg[e].display_name # query
              /\ hits # {} ) =>
                channel_results[i].channel_id =
                    koreatv_epg[CHOOSE h \in hits : \A g \in hits : h <= g].id

----------------------------------------------------------------------------
DistinctNames(config) ==
    \A i, j \in 1..Len(config) : i # j => config[i].name # config[j].name

RECURSIVE SuccessfulNames(_)
SuccessfulNames(results) ==
    IF results = <<>> THEN <<>>
    ELSE (IF Head(results).success THEN <<Head(results).name>> ELSE <<>>)
            \o SuccessfulNames(Tail(results))

NamesOf(q) == [i \in 1..Len(q) |-> q[i].name]

(* C4: a run that starts without kr.m3u, over channels with distinct names, *)
(* writes the successful channels in configuration order, whatever the      *)
(* order of the catalog, the listing and the backup text.                   *)
C4_ConfigOrder ==
    (pc = "done" /\ exit_status = 0 /\ content = FreshContent
        /\ DistinctNames(channels_config)) =>
        LabelSeq(Val(kr_m3u)) = SuccessfulNames(channel_results)

(* two channels succeed and the catalog lists them in the opposite order *)
C4_Witness ==
    /\ pc = "done"
    /\ exit_status = 0
    /\ content = FreshContent
    /\ NamesOf(channels_config) = <<NameB, NameA>>
    /\ NamesOf(koreatv_json) = <<NameA, NameB>>
    /\ SuccessCount(channel_results) = 2
    /\ LabelSeq(Val(kr_m3u)) = <<NameB, NameA>>

----------------------------------------------------------------------------
(* C5: when the configuration loaded and no channel resolved, run leaves    *)
(* kr.m3u as it is (not read, not written, not created) and exits with 1.   *)
C5_BatchFailure ==
    [][ ( /\ pc = "process_channels"
          /\ Len(channel_results) = Len(channels_config)
          /\ SuccessCount(channel_results) = 0 ) =>
            ( /\ kr_m3u' = kr_m3u
              /\ content' = content
              /\ runs' = runs
              /\ pc' = "done"
              /\ exit_status' = 1 ) ]_vars

(* a run over a non-empty configuration that resolved nothing has ended *)
C5_Witness ==
    /\ pc = "done"
    /\ exit_status = 1
    /\ channels_config # <<>>
    /\ Len(channel_results) = Len(channels_config)
    /\ SuccessCount(channel_results) = 0
    /\ runs = 0
    /\ kr_m3u = Some(<< <<EXTM3U>>, OldDesc(NameA), Url9 >>)

----------------------------------------------------------------------------
(* neither the catalog nor, when the channel has one, the backup gives a url *)
Unresolvable(i) ==
    /\ Missing(PrimaryOf(i)[1])
    /\ BackupEnabled(i) => Missing(FallbackOf(i)[1])

(* the results of the channels other than i, had channel i not been configured *)
WithoutAt(q, i) == SubSeq(q, 1, i - 1) \o SubSeq(q, i + 1, Len(q))

RECURSIVE ProcessAll(_)
ProcessAll(config) ==
    IF config = <<>> THEN <<>>
    ELSE <<ProcessChannel(koreatv_json, koreatv_epg, backup_m3u, Head(config))>>
            \o ProcessAll(Tail(config))

(* the first entry labelled name: its descriptor and the line after it *)
EntryOf(text, name) ==
    LET i == CHOOSE i \in Entries(text) :
                /\ Label(text[i]) = name
                /\ \A j \in Entries(text) : Label(text[j]) = name => i <= j
    IN  <<text[i], IF i + 1 <= Len(text) THEN text[i + 1] ELSE <<>> >>

FailedRecorded ==
    pc = "process_channels" =>
    \A i \in Processed :
        Unresolvable(i) =>
            /\ ~channel_results[i].success
            /\ WithoutAt(channel_results, i) =
                  SubSeq(ProcessAll(WithoutAt(channels_config, i)), 1,
                         Len(channel_results) - 1)

(* C6 as stated: a channel without a url from any source is recorded with   *)
(* success=false, the written file has no entry labelled with its name for  *)
(* every pre-existing file, and the other channels' results are unchanged.  *)
C6_Original ==
    /\ FailedRecorded
    /\ (pc = "done" /\ exit_status = 0 /\ DistinctNames(channels_config)) =>
          \A i \in Processed :
              Unresolvable(i) => channel_results[i].name \notin Labels(Val(kr_m3u))

(* C6, amended: the written file has an entry labelled with the failed      *)
(* channel's name exactly when the pre-existing file had one, and it is     *)
(* that entry, unchanged.                                                   *)
C6_FailedChannel ==
    /\ FailedRecorded
    /\ (pc = "done" /\ exit_status = 0 /\ DistinctNames(channels_config)) =>
          \A i \in Processed :
              Unresolvable(i) =>
                  LET name == channel_results[i].name IN
                  /\ name \in Labels(Val(kr_m3u)) <=> name \in Labels(content)
                  /\ name \in Labels(content) =>
                        EntryOf(Val(kr_m3u), name) = EntryOf(content, name)

(* the second of two channels failed on a catalog url of 'null', the first  *)
(* succeeded, and the file keeps the entry it had for the failed one        *)
C6_Witness ==
    /\ pc = "done"
    /\ exit_status = 0
    /\ Len(channel_results) = 2
    /\ channel_results[1].success
    /\ ~channel_results[2].success
    /\ PrimaryOf(2)[1] = Some(NULLSTR)
    /\ channel_results[2].name \in Labels(Val(kr_m3u))
    /\ channel_results[1].name # channel_results[2].name

----------------------------------------------------------------------------
(* C7: a channel with the backup enabled whose catalog url is missing       *)
(* (absent, '' or 'null') and whose backup lookup gives a url succeeds with *)
(* that url; its logo is the backup's only when the catalog's logo is       *)
(* missing, and the catalog's logo otherwise.                               *)
C7_FallbackAdopted ==
    pc = "process_channels" =>
    \A i \in Processed :
        LET primary == PrimaryOf(i)
            fallback == FallbackOf(i)
        IN  ( /\ BackupEnabled(i)
              /\ Missing(primary[1])
              /\ ~Missing(fallback[1]) ) =>
                /\ channel_results[i].success
                /\ channel_results[i].url = Val(fallback[1])
                /\ channel_results[i].logo =
                      IF Missing(primary[2])
                      THEN (IF Missing(fallback[2]) THEN <<>> ELSE Val(fallback[2]))
                      ELSE Val(primary[2])

(* both cases: a catalog url of 'null' with the backup's logo adopted, and  *)
(* a catalog entry with an empty url whose own logo is kept                 *)
C7_Witness ==
    /\ pc = "process_channels"
    /\ Len(channel_results) = 2
    /\ BackupEnabled(1)
    /\ PrimaryOf(1)[1] = Some(NULLSTR)
    /\ channel_results[1].success
    /\ channel_results[1].url = Url3
    /\ channel_results[1].logo = Logo2
    /\ BackupEnabled(2)
    /\ PrimaryOf(2) = <<Some(<<>>), Some(Logo1)>>
    /\ channel_results[2].success
    /\ channel_results[2].url = Url2
    /\ channel_results[2].logo = Logo1

----------------------------------------------------------------------------
(* C8: a channel whose backup flag is false and whose catalog url is        *)
(* missing fails, whatever the backup text holds.                           *)
C8_FallbackGated ==
    pc = "process_channels" =>
    \A i \in Processed :
        (~BackupEnabled(i) /\ Missing(PrimaryOf(i)[1])) => ~channel_results[i].success

(* the backup text was fetched for another channel and has a descriptor     *)
(* with the failed channel's name                                           *)
C8_Witness ==
    /\ pc = "process_channels"
    /\ Len(channel_results) = 2
    /\ ~BackupEnabled(1)
    /\ PrimaryOf(1) = <<NONE, NONE>>
    /\ ~IsNone(FallbackOf(1)[1])
    /\ ~channel_results[1].success
    /\ channel_results[2].success

----------------------------------------------------------------------------
(* extract_info_from_backup, read from the state after the first channel:   *)
(* the backup text, the match text and what the lookup returned             *)
LookupDone == Len(channel_results) = 1 /\ BackupEnabled(1) /\ Missing(PrimaryOf(1)[1])

MatchText == IF IsNone(channels_config[1].backup_match)
             THEN channels_config[1].json_match
             ELSE Val(channels_config[1].backup_match)

(* the descriptor lines of the backup text that contain the match text *)
MatchingDescriptors ==
    { i \in 1..Len(Val(backup_m3u)) :
        IsDescriptor(Val(backup_m3u)[i]) /\ Contains(Val(backup_m3u)[i], MatchText) }

Least(S) == CHOOSE i \in S : \A j \in S : i <= j

(* C9 as stated: the url is the next non-empty line after the first         *)
(* descriptor that contains the match text, blank lines skipped, and the    *)
(* lookup returns nothing only when no descriptor contains the match text.  *)
C9_Original ==
    LookupDone =>
        LET lines == Val(backup_m3u)
            hits == MatchingDescriptors
            later == { j \in 1..Len(lines) : hits # {} /\ j > Least(hits) /\ lines[j] # <<>> }
        IN  /\ IsNone(backup_info[1]) => hits = {}
            /\ later # {} => backup_info[1] = Some(lines[Least(later)])

(* C9, amended: the url is the line right after the first descriptor that   *)
(* contains the match text and has a line after it, blank or not; the       *)
(* lookup returns nothing exactly when there is no such descriptor.         *)
C9_NextLine ==
    LookupDone =>
        LET lines == Val(backup_m3u)
            hits == { i \in MatchingDescriptors : i < Len(lines) }
        IN  /\ IsNone(backup_info[1]) <=> hits = {}
            /\ hits # {} => backup_info[1] = Some(lines[Least(hits) + 1])

(* the first matching descriptor is followed by a blank line and then a url: *)
(* the lookup returned the blank line                                        *)
C9_Witness ==
    /\ LookupDone
    /\ Len(Val(backup_m3u)) >= 3
    /\ MatchingDescriptors # {}
    /\ Least(MatchingDescriptors) + 2 <= Len(Val(backup_m3u))
    /\ Val(backup_m3u)[Least(MatchingDescriptors) + 1] = <<>>
    /\ Val(backup_m3u)[Least(MatchingDescriptors) + 2] = Url3
    /\ backup_info[1] = Some(<<>>)
    /\ ~channel_results[1].success

====
